---- MODULE Spec2Model ----
(***************************************************************************)
(* A model of the SATB harmonization backend (backend/app.py): the two     *)
(* request handlers realize_satb and analyze_bassline, the voicing         *)
(* generator, the voicing DP, the compromise analyzer and the validator.   *)
(* The music21 objects the code manipulates (Pitch, Interval, Chord, Key,  *)
(* RomanNumeral) are modelled by what the code asks of them.               *)
(***************************************************************************)
EXTENDS Integers, Sequences, FiniteSets, TLC

VARIABLES pc, request, response, internals

vars == <<pc, request, response, internals>>

None == "None"

Min(a, b) == IF a < b THEN a ELSE b
Max(a, b) == IF a > b THEN a ELSE b
Abs(a) == IF a < 0 THEN -a ELSE a

(***************************************************************************)
(* Bounds of the model.                                                    *)
(***************************************************************************)
MaxLen == 2

(***************************************************************************)
(* Note-name text.  A note name such as "C3" is the text of a pitch name   *)
(* followed by the text of an octave; the octave text is empty when the    *)
(* client gave none.                                                       *)
(***************************************************************************)
NoteText(name, digits) == [name |-> name, digits |-> digits]

\* char.isdigit() for some char of the text (app.py:27, app.py:820)
HasDigit(text) == text.digits # ""

\* The pitch names music21 accepts among those the model uses.
PitchClassOfName ==
    ("C" :> 0) @@ ("D" :> 2) @@ ("E" :> 4) @@ ("F" :> 5) @@ ("G" :> 7)
    @@ ("G#" :> 8) @@ ("A" :> 9) @@ ("B" :> 11)

\* music21's STEP_TO_DNN_OFFSET on the step letter of a name.
StepNumOfName ==
    ("C" :> 0) @@ ("D" :> 1) @@ ("E" :> 2) @@ ("F" :> 3) @@ ("G" :> 4)
    @@ ("G#" :> 4) @@ ("A" :> 5) @@ ("B" :> 6)

OctaveOfDigits ==
    ("2" :> 2) @@ ("3" :> 3) @@ ("4" :> 4) @@ ("5" :> 5) @@ ("6" :> 6)

DigitsOfOctave ==
    (2 :> "2") @@ (3 :> "3") @@ (4 :> "4") @@ (5 :> "5") @@ (6 :> "6")

(***************************************************************************)
(* Pitch objects: a spelled name and an octave.                            *)
(***************************************************************************)
Pitch(name, octave) == [name |-> name, octave |-> octave]

\* Python's None where a pitch is expected.
NoPitch == Pitch("None", 0)

\* pitch.Pitch(text) / note.Note(text): raises on a name that is no pitch.
Parseable(text) ==
    /\ text.name \in DOMAIN PitchClassOfName
    /\ text.digits \in DOMAIN OctaveOfDigits

ParsePitch(text) == Pitch(text.name, OctaveOfDigits[text.digits])

\* Pitch.nameWithOctave
nameWithOctave(p) == NoteText(p.name, DigitsOfOctave[p.octave])

midi(p) == (p.octave + 1) * 12 + PitchClassOfName[p.name]
pitchClass(p) == PitchClassOfName[p.name]
StepNum(p) == StepNumOfName[p.name]

\* Pitch.__lt__ compares pitch space; Pitch.__le__ is "less than, or equal
\* as a spelled pitch".
PitchLt(p, q) == midi(p) < midi(q)
PitchLe(p, q) == PitchLt(p, q) \/ p = q

\* Voice ranges (lower, upper).
SOPRANO_RANGE == <<Pitch("C", 4), Pitch("G", 5)>>
ALTO_RANGE == <<Pitch("G", 3), Pitch("C", 5)>>
TENOR_RANGE == <<Pitch("C", 3), Pitch("G", 4)>>
BASS_RANGE == <<Pitch("E", 2), Pitch("C", 4)>>

InRange(p, range) == PitchLe(range[1], p) /\ PitchLe(p, range[2])

(***************************************************************************)
(* Intervals.  Interval(p, q).simpleName reduces the interval to less than *)
(* an octave: every octave multiple reduces to the unison, "P1".           *)
(***************************************************************************)
DiatonicNum(p) == p.octave * 7 + StepNum(p)

simpleName(p, q) ==
    LET steps == Abs(DiatonicNum(q) - DiatonicNum(p)) % 7
        semis == Abs(midi(q) - midi(p)) % 12
    IN  IF steps = 0 /\ semis = 0 THEN "P1"
        ELSE IF steps = 4 /\ semis = 7 THEN "P5"
        ELSE IF steps = 3 /\ semis = 5 THEN "P4"
        ELSE "other"

(***************************************************************************)
(* Keys.  key.Key(tonic, mode) for the keys of the model.                  *)
(***************************************************************************)
CMajor == [tonic |-> "C", mode |-> "major"]
AMinor == [tonic |-> "A", mode |-> "minor"]
AMajor == [tonic |-> "A", mode |-> "major"]

\* Key.getLeadingTone().name
LeadingToneName(key_obj) == IF key_obj = CMajor THEN "B" ELSE "G#"

\* Key.getPitches(): the names of the scale, tonic first.
ScaleNames(key_obj) ==
    IF key_obj.mode = "major"
    THEN <<"C", "D", "E", "F", "G", "A", "B", "C">>
    ELSE <<"A", "B", "C", "D", "E", "F", "G", "A">>

(***************************************************************************)
(* Roman numerals.  roman.RomanNumeral(numeral, key_obj): the names of     *)
(* root, third, fifth and seventh.                                         *)
(***************************************************************************)
Tones(root, third, fifth, seventh) ==
    [root |-> root, third |-> third, fifth |-> fifth, seventh |-> seventh]

MajorNumerals ==
    ("I" :> Tones("C", "E", "G", None)) @@ ("I6" :> Tones("C", "E", "G", None))
    @@ ("I6/4" :> Tones("C", "E", "G", None))
    @@ ("ii" :> Tones("D", "F", "A", None)) @@ ("ii6" :> Tones("D", "F", "A", None))
    @@ ("IV" :> Tones("F", "A", "C", None)) @@ ("IV6" :> Tones("F", "A", "C", None))
    @@ ("V" :> Tones("G", "B", "D", None)) @@ ("V7" :> Tones("G", "B", "D", "F"))
    @@ ("V6/5" :> Tones("G", "B", "D", "F"))
    @@ ("vi" :> Tones("A", "C", "E", None)) @@ ("vi6" :> Tones("A", "C", "E", None))
    @@ ("vii°" :> Tones("B", "D", "F", None)) @@ ("vii°6" :> Tones("B", "D", "F", None))

MinorNumerals ==
    ("i" :> Tones("A", "C", "E", None)) @@ ("i6" :> Tones("A", "C", "E", None))
    @@ ("i6/4" :> Tones("A", "C", "E", None))
    @@ ("ii°" :> Tones("B", "D", "F", None)) @@ ("ii°6" :> Tones("B", "D", "F", None))
    @@ ("iv" :> Tones("D", "F", "A", None)) @@ ("iv6" :> Tones("D", "F", "A", None))
    @@ ("V" :> Tones("E", "G#", "B", None)) @@ ("v" :> Tones("E", "G", "B", None))
    @@ ("V7" :> Tones("E", "G#", "B", "D"))
    @@ ("VI" :> Tones("F", "A", "C", None)) @@ ("VI6" :> Tones("F", "A", "C", None))
    @@ ("vii°" :> Tones("G#", "B", "D", None)) @@ ("vii°6" :> Tones("G#", "B", "D", None))

NumeralTable(key_obj) == IF key_obj.mode = "major" THEN MajorNumerals ELSE MinorNumerals

\* RomanNumeral raises on a figure it cannot parse.
RomanNumeral(numeral, key_obj) == NumeralTable(key_obj)[numeral]

\* RomanNumeral.containsSeventh()
containsSeventh(chord_symbol) == chord_symbol.seventh # None

(***************************************************************************)
(* Chords.  A chord.Chord is the tuple of its pitches in the order given   *)
(* to the constructor; the voicings are <<bass, tenor, alto, soprano>>.    *)
(***************************************************************************)
Chord(bass, tenor, alto, soprano) == <<bass, tenor, alto, soprano>>

\* The pitches of a chord that are the first of their step letter.
NonDuplicatingIdx(c) ==
    {i \in 1..Len(c) : \A j \in 1..(i - 1) : StepNum(c[j]) # StepNum(c[i])}

\* The elements of a set of integers in increasing order.
SortedSeq(S) ==
    [i \in 1..Cardinality(S) |->
        CHOOSE x \in S : Cardinality({y \in S : y < x}) = i - 1]

\* Chord.getChordStep(chordStep, testRoot): the first pitch of the chord
\* whose step letter is chordStep above the tested root.
HasChordStep(c, chordStep, rootStep) ==
    \E i \in 1..Len(c) : (StepNum(c[i]) - rootStep) % 7 = chordStep - 1

getChordStep(c, chordStep, rootStep) ==
    IF HasChordStep(c, chordStep, rootStep)
    THEN c[CHOOSE i \in 1..Len(c) :
             /\ (StepNum(c[i]) - rootStep) % 7 = chordStep - 1
             /\ \A j \in 1..(i - 1) : (StepNum(c[j]) - rootStep) % 7 # chordStep - 1]
    ELSE NoPitch

\* The rootness score of Chord._findRoot: 1/(index + 6) for each of the
\* chord steps 3, 5, 7, 2, 4, 6 found above the tested pitch, over the
\* common denominator 27720.
Rootness(c, rootStep) ==
    (IF HasChordStep(c, 3, rootStep) THEN 4620 ELSE 0)
    + (IF HasChordStep(c, 5, rootStep) THEN 3960 ELSE 0)
    + (IF HasChordStep(c, 7, rootStep) THEN 3465 ELSE 0)
    + (IF HasChordStep(c, 2, rootStep) THEN 3080 ELSE 0)
    + (IF HasChordStep(c, 4, rootStep) THEN 2772 ELSE 0)
    + (IF HasChordStep(c, 6, rootStep) THEN 2520 ELSE 0)

\* Chord.root(): the pitch whose step letter has the others stacked in
\* thirds above it, else the pitch of the highest rootness score.
root(c) ==
    LET idx == NonDuplicatingIdx(c)
        n == Cardinality(idx)
        stepNums == SortedSeq({StepNum(c[i]) : i \in idx})
        at(k) == stepNums[((k - 1) % n) + 1]
        allThirds(start) ==
            \A k \in start..(start + n - 2) : (at(k + 1) - at(k)) \in {2, -5}
        firstOfStep(s) == c[CHOOSE i \in idx : StepNum(c[i]) = s]
        best == CHOOSE i \in idx :
                    /\ \A j \in idx : Rootness(c, StepNum(c[j])) <= Rootness(c, StepNum(c[i]))
                    /\ \A j \in idx : j < i =>
                           Rootness(c, StepNum(c[j])) < Rootness(c, StepNum(c[i]))
    IN  IF n = 1 THEN c[1]
        ELSE IF \E start \in 1..n : allThirds(start)
        THEN firstOfStep(at(CHOOSE start \in 1..n :
                 allThirds(start) /\ \A t \in 1..(start - 1) : ~allThirds(t)))
        ELSE c[best]

\* Chord.third, Chord.fifth, Chord.seventh
third(c) == getChordStep(c, 3, StepNum(root(c)))
fifth(c) == getChordStep(c, 5, StepNum(root(c)))
seventh(c) == getChordStep(c, 7, StepNum(root(c)))

\* Chord.bass(): the lowest pitch.
bass(c) == c[CHOOSE i \in 1..Len(c) :
               /\ \A j \in 1..Len(c) : midi(c[i]) <= midi(c[j])
               /\ \A j \in 1..(i - 1) : midi(c[i]) < midi(c[j])]

\* Chord.inversion() = 0: the root has the step letter of the bass.
inRootPosition(c) == StepNum(bass(c)) = StepNum(root(c))

\* The first index (from 0) of a value in a tuple: list.index
IndexOf(seq, x) ==
    (CHOOSE i \in 1..Len(seq) : seq[i] = x /\ \A j \in 1..(i - 1) : seq[j] # x) - 1

pitchNames(c) == [i \in 1..Len(c) |-> c[i].name]
Count(seq, x) == Cardinality({i \in 1..Len(seq) : seq[i] = x})

(***************************************************************************)
(* The voicing generator.                                                  *)
(***************************************************************************)
\* itertools.permutations of three positions, in the order it yields them.
Permutations3 ==
    << <<1, 2, 3>>, <<1, 3, 2>>, <<2, 1, 3>>, <<2, 3, 1>>, <<3, 1, 2>>, <<3, 2, 1>> >>

\* The k-th candidate of the loops over the permutations and the octaves
\* (soprano 4..5, alto 3..4, tenor 3..4), as <<soprano, alto, tenor>>.
Candidate(upper, k) ==
    LET perm == Permutations3[((k - 1) \div 8) + 1]
        sop_oct == 4 + (((k - 1) % 8) \div 4)
        alto_oct == 3 + (((k - 1) % 4) \div 2)
        ten_oct == 3 + ((k - 1) % 2)
    IN  <<Pitch(upper[perm[1]], sop_oct),
          Pitch(upper[perm[2]], alto_oct),
          Pitch(upper[perm[3]], ten_oct)>>

\* The checks without the two on the spacing of the upper voices.
AdmissibleWithoutSpacing(fixed_bass, soprano, alto, tenor) ==
    /\ InRange(soprano, SOPRANO_RANGE)
    /\ InRange(alto, ALTO_RANGE)
    /\ InRange(tenor, TENOR_RANGE)
    /\ PitchLt(fixed_bass, tenor) /\ PitchLt(tenor, alto) /\ PitchLt(alto, soprano)

\* The checks a candidate passes before it is appended.
Admissible(fixed_bass, soprano, alto, tenor) ==
    /\ InRange(soprano, SOPRANO_RANGE)
    /\ InRange(alto, ALTO_RANGE)
    /\ InRange(tenor, TENOR_RANGE)
    /\ PitchLt(fixed_bass, tenor) /\ PitchLt(tenor, alto) /\ PitchLt(alto, soprano)
    /\ midi(soprano) - midi(alto) <= 12
    /\ midi(alto) - midi(tenor) <= 12

RECURSIVE CandidateLoop(_, _, _)
CandidateLoop(fixed_bass, upper, k) ==
    IF k > 48 THEN <<>>
    ELSE LET cand == Candidate(upper, k)
         IN  (IF Admissible(fixed_bass, cand[1], cand[2], cand[3])
              THEN <<Chord(fixed_bass, cand[3], cand[2], cand[1])>>
              ELSE <<>>)
             \o CandidateLoop(fixed_bass, upper, k + 1)

\* The voicings of one doubling: triad_notes[1:] is third, fifth, doubled note.
VoicingsForDoubling(chord_symbol, fixed_bass, double_note) ==
    CandidateLoop(fixed_bass, <<chord_symbol.third, chord_symbol.fifth, double_note>>, 1)

doubling_priority(key_obj, chord_symbol) ==
    LET leading_tone == LeadingToneName(key_obj)
    IN  (IF chord_symbol.root # leading_tone THEN <<chord_symbol.root>> ELSE <<>>)
        \o (IF chord_symbol.fifth # leading_tone THEN <<chord_symbol.fifth>> ELSE <<>>)
        \o (IF chord_symbol.third # leading_tone THEN <<chord_symbol.third>> ELSE <<>>)

\* The loop over the doublings, left as soon as more than 20 voicings exist.
RECURSIVE DoublingLoop(_, _, _, _)
DoublingLoop(chord_symbol, fixed_bass, priority, voicings) ==
    IF priority = <<>> THEN voicings
    ELSE LET more == voicings \o VoicingsForDoubling(chord_symbol, fixed_bass, Head(priority))
         IN  IF Len(more) > 20 THEN more
             ELSE DoublingLoop(chord_symbol, fixed_bass, Tail(priority), more)

RegularVoicings(key_obj, chord_symbol, fixed_bass) ==
    DoublingLoop(chord_symbol, fixed_bass, doubling_priority(key_obj, chord_symbol), <<>>)

\* The voicing used when no candidate was admissible.
FallbackVoicing(chord_symbol, fixed_bass) ==
    LET soprano == Pitch(chord_symbol.root, 5)
        alto == Pitch(chord_symbol.third, 4)
        tenor == Pitch(chord_symbol.fifth, 4)
    IN  IF PitchLt(alto, tenor)
        THEN Chord(fixed_bass, alto, tenor, soprano)
        ELSE Chord(fixed_bass, tenor, alto, soprano)

voiceChordWithFixedBass(key_obj, chord_symbol, fixed_bass) ==
    LET voicings == RegularVoicings(key_obj, chord_symbol, fixed_bass)
    IN  IF voicings = <<>>
        THEN <<FallbackVoicing(chord_symbol, fixed_bass)>>
        ELSE SubSeq(voicings, 1, Min(10, Len(voicings)))

(***************************************************************************)
(* The cost functions of the voicing DP.                                   *)
(***************************************************************************)
\* Key.getLeadingTone().pitchClass
LeadingTonePitchClass(key_obj) == PitchClassOfName[LeadingToneName(key_obj)]

\* "x.pitchClass if x else None", and Python's truth value of the result:
\* None is false, and so is pitch class 0.
PitchClassOrNone(p) == IF p = NoPitch THEN -1 ELSE pitchClass(p)

Truthy(pc_or_none) == pc_or_none # -1 /\ pc_or_none # 0

chordCost(key_obj, chord_obj) ==
    LET pitch_classes == [i \in 1..4 |-> pitchClass(chord_obj[i])]
        unique_pitch_classes == {pitch_classes[i] : i \in 1..4}
        root_pc == pitchClass(root(chord_obj))
        third_pc == PitchClassOrNone(third(chord_obj))
        fifth_pc == PitchClassOrNone(fifth(chord_obj))
    IN  (IF root_pc \notin unique_pitch_classes THEN 500 ELSE 0)
        + (IF Truthy(third_pc) /\ third_pc \notin unique_pitch_classes THEN 300 ELSE 0)
        + (IF Truthy(fifth_pc) /\ fifth_pc \notin unique_pitch_classes THEN 200 ELSE 0)
        + (IF inRootPosition(chord_obj) /\ Count(pitch_classes, root_pc) <= 1 THEN 10 ELSE 0)
        + (IF Count(pitch_classes, LeadingTonePitchClass(key_obj)) > 1 THEN 100 ELSE 0)

\* The voice pairs (i, j), i < j, in the order of the nested loops (from 1).
VoicePairs == << <<1, 2>>, <<1, 3>>, <<1, 4>>, <<2, 3>>, <<2, 4>>, <<3, 4>> >>

\* "No motion": both voices keep their pitch.
NoMotion(chord1, chord2, i, j) == chord1[j] = chord2[j] /\ chord1[i] = chord2[i]

\* The two intervals of a voice pair, upper index minus lower index.
I1(chord1, i, j) == midi(chord1[j]) - midi(chord1[i])

\* The terms progressionCost adds for one voice pair.
ParallelFifthTerm(chord1, chord2, i, j) ==
    /\ ~NoMotion(chord1, chord2, i, j)
    /\ I1(chord1, i, j) % 12 = 7 /\ I1(chord2, i, j) % 12 = 7

ParallelOctaveTerm(chord1, chord2, i, j) ==
    /\ ~NoMotion(chord1, chord2, i, j)
    /\ I1(chord1, i, j) % 12 = 0 /\ I1(chord2, i, j) % 12 = 0

ParallelUnisonTerm(chord1, chord2, i, j) ==
    /\ ~NoMotion(chord1, chord2, i, j)
    /\ I1(chord1, i, j) = 0 /\ I1(chord2, i, j) = 0

OuterVoicesTerm(chord1, chord2, i, j) ==
    IF /\ ~NoMotion(chord1, chord2, i, j)
       /\ i = 1 /\ j = 4
       /\ \/ midi(chord2[j]) > midi(chord1[j]) /\ midi(chord2[i]) > midi(chord1[i])
          \/ midi(chord2[j]) < midi(chord1[j]) /\ midi(chord2[i]) < midi(chord1[i])
    THEN IF Abs(I1(chord2, i, j)) % 12 = 7 \/ Abs(I1(chord2, i, j)) % 12 = 0
         THEN 50 ELSE 2
    ELSE 0

PairCost(chord1, chord2, i, j) ==
    (IF ParallelFifthTerm(chord1, chord2, i, j) THEN 200 ELSE 0)
    + (IF ParallelOctaveTerm(chord1, chord2, i, j) THEN 300 ELSE 0)
    + (IF ParallelUnisonTerm(chord1, chord2, i, j) THEN 250 ELSE 0)
    + OuterVoicesTerm(chord1, chord2, i, j)

OverlapCost(chord1, chord2) ==
    IF \/ PitchLt(chord1[2], chord2[1])
       \/ PitchLt(chord2[2], chord1[1])
       \/ PitchLt(chord1[3], chord2[2])
       \/ PitchLt(chord2[3], chord1[2])
       \/ PitchLt(chord1[4], chord2[3])
       \/ PitchLt(chord2[4], chord1[3])
    THEN 40 ELSE 0

LeapCost(chord1, chord2) ==
    LET diff == [i \in 1..4 |-> Abs(midi(chord1[i]) - midi(chord2[i]))]
    IN  (IF diff[4] # 0 THEN (diff[4] \div 3) * (diff[4] \div 3) ELSE 1)
        + ((diff[3] * diff[3]) \div 3)
        + ((diff[2] * diff[2]) \div 3)
        + (IF diff[1] # 12 THEN (diff[1] * diff[1]) \div 50 ELSE 0)

\* The chordal seventh of chord1 resolves downward or stays.
SeventhCost(chord1, chord2) ==
    IF seventh(chord1) # NoPitch
    THEN LET seventhVoice == IndexOf(chord1, seventh(chord1)) + 1
             delta == midi(chord2[seventhVoice]) - midi(seventh(chord1))
         IN  IF delta < -2 \/ delta > 0 THEN 100 ELSE 0
    ELSE 0

\* V->I means ti->do or ti->sol.
LeadingToneCost(key_obj, chord1, chord2) ==
    LET names == ScaleNames(key_obj)
        ti == LeadingToneName(key_obj)
    IN  IF /\ root(chord1).name \in {names[5], ti}
           /\ root(chord2).name \in {names[1], names[6]}
           /\ \E v \in 1..4 : chord1[v].name = ti
        THEN LET voice == IndexOf(pitchNames(chord1), ti)
                 delta == midi(chord2[voice + 1]) - midi(chord1[voice + 1])
             IN  IF ~(delta = 1 \/ (delta = -4 /\ voice >= 1 /\ voice <= 2))
                 THEN 100 ELSE 0
        ELSE 0

progressionCost(key_obj, chord1, chord2) ==
    OverlapCost(chord1, chord2)
    + LeapCost(chord1, chord2)
    + PairCost(chord1, chord2, 1, 2) + PairCost(chord1, chord2, 1, 3)
    + PairCost(chord1, chord2, 1, 4) + PairCost(chord1, chord2, 2, 3)
    + PairCost(chord1, chord2, 2, 4) + PairCost(chord1, chord2, 3, 4)
    + SeventhCost(chord1, chord2)
    + LeadingToneCost(key_obj, chord1, chord2)

(***************************************************************************)
(* The voicing DP.  dp[i] is a dict from a voicing's pitches to            *)
(* (cost, predecessor); it is modelled as the sequence of its entries in   *)
(* insertion order.                                                        *)
(***************************************************************************)
Entry(pitches, cost, prev) == [pitches |-> pitches, cost |-> cost, prev |-> prev]

\* A sequence given as a function on 1..n, as the tuple of its elements.
List(f) == f \o <<>>

\* The keys of a dict filled from a list: the first occurrences, in order.
RECURSIVE DistinctInOrder(_)
DistinctInOrder(seq) ==
    IF seq = <<>> THEN <<>>
    ELSE LET front == DistinctInOrder(SubSeq(seq, 1, Len(seq) - 1))
             last == seq[Len(seq)]
         IN  IF \E i \in 1..Len(front) : front[i] = last
             THEN front ELSE Append(front, last)

\* The first index at which a sequence of numbers is least.
FirstMinIndex(costs) ==
    CHOOSE i \in 1..Len(costs) :
        /\ \A j \in 1..Len(costs) : costs[i] <= costs[j]
        /\ \A j \in 1..(i - 1) : costs[j] > costs[i]

\* dp[0]
FirstStage(key_obj, voicings) ==
    LET keys == DistinctInOrder(voicings)
    IN  List([k \in 1..Len(keys) |-> Entry(keys[k], chordCost(key_obj, keys[k]), <<>>)])

\* The costs of reaching v through each entry of dp[i - 1], in dict order.
Through(key_obj, previous, v) ==
    List([k \in 1..Len(previous) |->
        previous[k].cost + progressionCost(key_obj, previous[k].pitches, v)])

\* dp[i][v.pitches]: the first least of the costs, and the entry it came through.
BestEntry(key_obj, previous, v, costs) ==
    LET best == FirstMinIndex(costs)
    IN  Entry(v, costs[best] + chordCost(key_obj, v), previous[best].pitches)

\* dp[i] from dp[i - 1], i > 0
NextStage(key_obj, previous, voicings) ==
    LET keys == DistinctInOrder(voicings)
    IN  List([k \in 1..Len(keys) |->
            BestEntry(key_obj, previous, keys[k], Through(key_obj, previous, keys[k]))])

\* The dp tables of the first n chords.
RECURSIVE Stages(_, _, _, _)
Stages(key_obj, chord_progression, bass_notes, n) ==
    LET voicings == voiceChordWithFixedBass(
                        key_obj, RomanNumeral(chord_progression[n], key_obj), bass_notes[n])
    IN  IF n = 1 THEN <<FirstStage(key_obj, voicings)>>
        ELSE LET dp == Stages(key_obj, chord_progression, bass_notes, n - 1)
             IN  Append(dp, NextStage(key_obj, dp[n - 1], voicings))

\* dp[i][pitches]
Lookup(stage, pitches) == stage[CHOOSE k \in 1..Len(stage) : stage[k].pitches = pitches]

\* The backtracking loop with the cost of the predecessor not subtracted:
\* every chord gets the cost accumulated up to it.
RECURSIVE BacktrackCumulative(_, _, _)
BacktrackCumulative(dp, i, cur) ==
    LET here == Lookup(dp[i], cur)
        step == [chord |-> cur, cost |-> here.cost]
    IN  IF i = 1 THEN <<step>>
        ELSE Append(BacktrackCumulative(dp, i - 1, here.prev), step)

\* The backtracking loop: the chords and the per-chord costs of positions
\* 1..i, given the voicing cur chosen at position i.
RECURSIVE Backtrack(_, _, _)
Backtrack(dp, i, cur) ==
    LET here == Lookup(dp[i], cur)
        before == IF i > 1 /\ here.prev # <<>>
                  THEN Lookup(dp[i - 1], here.prev).cost ELSE 0
        step == [chord |-> cur, cost |-> here.cost - before]
    IN  IF i = 1 THEN <<step>>
        ELSE Append(Backtrack(dp, i - 1, here.prev), step)

(***************************************************************************)
(* The compromise analyzer.                                                *)
(***************************************************************************)
HIGH_COST_THRESHOLD == 100
MEDIUM_COST_THRESHOLD == 50

Compromise(type, severity, location, voices) ==
    [type |-> type, severity |-> severity, location |-> location, voices |-> voices]

\* Flattens a sequence of sequences.
RECURSIVE Flatten(_)
Flatten(seqs) == IF seqs = <<>> THEN <<>> ELSE Head(seqs) \o Flatten(Tail(seqs))

Only(cond, item) == IF cond THEN <<item>> ELSE <<>>

analyze_compromises(chords, chord_costs, total_cost) ==
    LET n == Len(chords)
        overall ==
            IF total_cost > HIGH_COST_THRESHOLD * n
            THEN <<Compromise("overall_quality", "high", <<>>, <<>>)>>
            ELSE IF total_cost > MEDIUM_COST_THRESHOLD * n
            THEN <<Compromise("overall_quality", "medium", <<>>, <<>>)>>
            ELSE <<>>
        perChord(i) ==
            IF chord_costs[i] > HIGH_COST_THRESHOLD
            THEN <<Compromise("chord_compromise", "high", <<i>>, <<>>)>>
            ELSE IF chord_costs[i] > MEDIUM_COST_THRESHOLD
            THEN <<Compromise("chord_compromise", "medium", <<i>>, <<>>)>>
            ELSE <<>>
        forced(i) ==
            LET pair(p) ==
                    LET j == VoicePairs[p][1]
                        k == VoicePairs[p][2]
                        interval1 == simpleName(chords[i][j], chords[i][k])
                        interval2 == simpleName(chords[i + 1][j], chords[i + 1][k])
                    IN  IF \/ interval1 = "P5" /\ interval2 = "P5"
                           \/ interval1 = "P8" /\ interval2 = "P8"
                        THEN <<Compromise("forced_parallels", "high", <<i, i + 1>>, <<j, k>>)>>
                        ELSE <<>>
            IN  Flatten([p \in 1..Len(VoicePairs) |-> pair(p)])
    IN  overall \o Flatten([i \in 1..n |-> perChord(i)])
                \o Flatten([i \in 1..(n - 1) |-> forced(i)])

\* generate_simple_fallback_chords: the realization used when dp[-1] is empty.
generate_simple_fallback_chords(chord_progression, bass_notes) ==
    List([i \in 1..Len(bass_notes) |->
        Chord(bass_notes[i], Pitch(bass_notes[i].name, 4),
              Pitch(bass_notes[i].name, 4), Pitch(bass_notes[i].name, 5))])

\* float('inf'), as a cost no sum of penalties reaches.
Infinity == 1000000000

\* The entry of the last table that was entered last, whatever its cost.
LastEntered(dp) == dp[Len(dp)][Len(dp[Len(dp)])]

\* min(dp[-1].items(), key=cost): the first entry of least cost.
BestLast(dp) ==
    LET last == dp[Len(dp)]
    IN  last[FirstMinIndex(List([k \in 1..Len(last) |-> last[k].cost]))]

\* The chords and chord costs of the backtracking loop, with the compromises
\* found in them.
Analyzed(path, totalCost) ==
    LET chords == List([i \in 1..Len(path) |-> path[i].chord])
        chord_costs == List([i \in 1..Len(path) |-> path[i].cost])
    IN  [chords |-> chords,
         totalCost |-> totalCost,
         chord_costs |-> chord_costs,
         compromises |-> analyze_compromises(chords, chord_costs, totalCost)]

\* The part of voiceProgressionWithFixedBass after the dp tables are filled.
Voiced(chord_progression, bass_notes, dp) ==
    IF dp[Len(dp)] = <<>>
    THEN [chords |-> generate_simple_fallback_chords(chord_progression, bass_notes),
          totalCost |-> Infinity,
          chord_costs |-> <<>>,
          compromises |-> <<Compromise("fallback_used", "high", <<>>, <<>>)>>]
    ELSE Analyzed(Backtrack(dp, Len(dp), BestLast(dp).pitches), BestLast(dp).cost)

voiceProgressionWithFixedBass(key_obj, chord_progression, bass_notes) ==
    Voiced(chord_progression, bass_notes,
           Stages(key_obj, chord_progression, bass_notes, Len(chord_progression)))

(***************************************************************************)
(* Key text.  A key name such as "C major" is the sequence of its words.   *)
(***************************************************************************)
\* key.Key(tonic, mode) raises unless it names a key.
KeyExists(tonic, mode) == [tonic |-> tonic, mode |-> mode] \in {CMajor, AMinor, AMajor}

(***************************************************************************)
(* The response format of realize_satb.                                    *)
(***************************************************************************)
Voices(soprano, alto, tenor, bass_text, numeral) ==
    [soprano |-> soprano, alto |-> alto, tenor |-> tenor, bass |-> bass_text, chord |-> numeral]

\* sorted(chord_obj.pitches, key=lambda p: p.midi): a stable sort.
SortedPitches(c) ==
    LET rank(i) == Cardinality({j \in 1..4 :
                       midi(c[j]) < midi(c[i]) \/ (midi(c[j]) = midi(c[i]) /\ j < i)}) + 1
    IN  List([r \in 1..4 |-> c[CHOOSE i \in 1..4 : rank(i) = r]])

generate_fallback_satb(num_chords) ==
    List([i \in 1..num_chords |->
        Voices(NoteText("C", "5"), NoteText("G", "4"), NoteText("E", "4"),
               NoteText("C", "3"), "I")])

\* The note names of the request with the default octave appended.
WithDefaultOctave(text) == IF HasDigit(text) THEN text ELSE NoteText(text.name, "3")

\* What generate_satb_harmonization raises on: a key that is no key, a note
\* name that is no note, more numerals than bass notes.
HarmonizationRaises(chord_progression, bass_notes, key_name) ==
    \/ Len(key_name) = 2 /\ ~KeyExists(key_name[1], key_name[2])
    \/ \E i \in 1..Len(bass_notes) : ~Parseable(WithDefaultOctave(bass_notes[i]))
    \/ Len(chord_progression) > Len(bass_notes)

KeyOfHarmonization(key_name) ==
    IF Len(key_name) = 2 THEN [tonic |-> key_name[1], mode |-> key_name[2]] ELSE CMajor

\* The realization the DP returns for a request that raises nothing.
Realization(chord_progression, bass_notes, key_name) ==
    voiceProgressionWithFixedBass(
        KeyOfHarmonization(key_name), chord_progression,
        List([i \in 1..Len(bass_notes) |-> ParsePitch(WithDefaultOctave(bass_notes[i]))]))

\* The third field is the result of voiceProgressionWithFixedBass the
\* response was built of, kept for the properties that speak of it.
NoRealization == [chords |-> <<>>, totalCost |-> 0, chord_costs |-> <<>>, compromises |-> <<>>]

\* The API format of a realization: the pitches of each chord sorted, the
\* bass replaced by the bass note of the request.
ApiFormat(chord_progression, bass_notes, voiced) ==
    [satb_voices |->
        List([i \in 1..Len(voiced.chords) |->
            Voices(nameWithOctave(SortedPitches(voiced.chords[i])[4]),
                   nameWithOctave(SortedPitches(voiced.chords[i])[3]),
                   nameWithOctave(SortedPitches(voiced.chords[i])[2]),
                   nameWithOctave(ParsePitch(WithDefaultOctave(bass_notes[i]))),
                   chord_progression[i])]),
     compromises |-> voiced.compromises,
     voiced |-> voiced]

generate_satb_harmonization(chord_progression, bass_notes, key_name) ==
    IF HarmonizationRaises(chord_progression, bass_notes, key_name)
    THEN [satb_voices |-> generate_fallback_satb(Len(chord_progression)),
          compromises |-> <<>>,
          voiced |-> NoRealization]
    ELSE ApiFormat(chord_progression, bass_notes,
                   Realization(chord_progression, bass_notes, key_name))

(***************************************************************************)
(* validate_satb_rules.  An entry of errors or warnings carries its type,  *)
(* the chord numbers of its location, its voice names and its severity; a  *)
(* suggestion carries the sentence it is and the values filled into it.    *)
(***************************************************************************)
voice_names == <<"Bass", "Tenor", "Alto", "Soprano">>
\* The ranges listed from the soprano down, against voice_names from the
\* bass up.
voice_ranges_from_soprano == <<SOPRANO_RANGE, ALTO_RANGE, TENOR_RANGE, BASS_RANGE>>

voice_ranges == <<BASS_RANGE, TENOR_RANGE, ALTO_RANGE, SOPRANO_RANGE>>

Finding(type, location, voice, severity) ==
    [type |-> type, location |-> location, voice |-> voice, severity |-> severity]

Suggestion(text, voice, position) == [text |-> text, voice |-> voice, position |-> position]

\* The characters of a numeral, for the tests 'V' in roman, 'I' in roman.
CharsOfNumeral ==
    ("I" :> <<"I">>) @@ ("I6" :> <<"I", "6">>) @@ ("I6/4" :> <<"I", "6", "/", "4">>) @@
    ("ii" :> <<"i", "i">>) @@ ("ii6" :> <<"i", "i", "6">>) @@
    ("iii" :> <<"i", "i", "i">>) @@
    ("IV" :> <<"I", "V">>) @@ ("IV6" :> <<"I", "V", "6">>) @@
    ("V" :> <<"V">>) @@ ("V7" :> <<"V", "7">>) @@ ("V6/5" :> <<"V", "6", "/", "5">>) @@
    ("vi" :> <<"v", "i">>) @@ ("vi6" :> <<"v", "i", "6">>) @@
    ("vii°" :> <<"v", "i", "i", "°">>) @@ ("vii°6" :> <<"v", "i", "i", "°", "6">>) @@
    ("i" :> <<"i">>) @@ ("i6" :> <<"i", "6">>) @@ ("i6/4" :> <<"i", "6", "/", "4">>) @@
    ("ii°" :> <<"i", "i", "°">>) @@ ("ii°6" :> <<"i", "i", "°", "6">>) @@
    ("iv" :> <<"i", "v">>) @@ ("iv6" :> <<"i", "v", "6">>) @@
    ("v" :> <<"v">>) @@
    ("VI" :> <<"V", "I">>) @@ ("VI6" :> <<"V", "I", "6">>)

CharIn(char, roman) == \E c \in 1..Len(CharsOfNumeral[roman]) : CharsOfNumeral[roman][c] = char

\* sub in roman, for a sequence of characters.
Contains(sub, roman) ==
    LET chars == CharsOfNumeral[roman]
    IN  \E start \in 0..(Len(chars) - Len(sub)) :
            \A c \in 1..Len(sub) : chars[start + c] = sub[c]

\* The chord the validator builds of one entry of the response.
ChordOfVoices(chord_data) ==
    Chord(ParsePitch(chord_data.bass), ParsePitch(chord_data.tenor),
          ParsePitch(chord_data.alto), ParsePitch(chord_data.soprano))

VoicesParse(chord_data) ==
    /\ Parseable(chord_data.soprano) /\ Parseable(chord_data.alto)
    /\ Parseable(chord_data.tenor) /\ Parseable(chord_data.bass)

\* Voice ranges: the current and the next chord of the pair, voice by voice.
RangeErrors(current_pitches, next_pitches, chord_num) ==
    Flatten([j \in 1..4 |->
        Only(~InRange(current_pitches[j], voice_ranges[j]),
             Finding("voice_range", <<chord_num>>, <<voice_names[j]>>, "error"))
        \o Only(~InRange(next_pitches[j], voice_ranges[j]),
             Finding("voice_range", <<chord_num + 1>>, <<voice_names[j]>>, "error"))])

RangeSuggestions(current_pitches) ==
    Flatten([j \in 1..4 |->
        Only(~InRange(current_pitches[j], voice_ranges[j]),
             Suggestion("Move voice to within its range", <<voice_names[j]>>, 0))])

Moved(current_pitches, next_pitches, j, k) ==
    current_pitches[j] # next_pitches[j] \/ current_pitches[k] # next_pitches[k]

\* Parallel fifths, octaves and unisons of one voice pair.
ParallelErrorsOfPair(current_pitches, next_pitches, chord_num, j, k) ==
    LET interval1 == simpleName(current_pitches[j], current_pitches[k])
        interval2 == simpleName(next_pitches[j], next_pitches[k])
        moved == Moved(current_pitches, next_pitches, j, k)
        where == <<chord_num, chord_num + 1>>
        who == <<voice_names[j], voice_names[k]>>
    IN  Only(interval1 = "P5" /\ interval2 = "P5" /\ moved,
             Finding("parallel_fifths", where, who, "error"))
        \o Only(((interval1 = "P8" /\ interval2 = "P8") \/ (interval1 = "P1" /\ interval2 = "P1"))
                /\ moved,
             Finding(IF interval1 = "P1" THEN "parallel_unisons" ELSE "parallel_octaves",
                     where, who, "error"))
        \o Only(nameWithOctave(current_pitches[j]) = nameWithOctave(current_pitches[k])
                /\ nameWithOctave(next_pitches[j]) = nameWithOctave(next_pitches[k]) /\ moved,
             Finding("parallel_unisons", where, who, "error"))

ParallelErrors(current_pitches, next_pitches, chord_num) ==
    Flatten([p \in 1..Len(VoicePairs) |->
        ParallelErrorsOfPair(current_pitches, next_pitches, chord_num,
                             VoicePairs[p][1], VoicePairs[p][2])])

ParallelSuggestionsOfPair(current_pitches, next_pitches, chord_num, j, k) ==
    LET interval1 == simpleName(current_pitches[j], current_pitches[k])
        interval2 == simpleName(next_pitches[j], next_pitches[k])
        moved == Moved(current_pitches, next_pitches, j, k)
        change == Suggestion("Change chord voicing or try different chord progression", <<>>, chord_num)
    IN  Only(interval1 = "P5" /\ interval2 = "P5" /\ moved, change)
        \o Only(((interval1 = "P8" /\ interval2 = "P8") \/ (interval1 = "P1" /\ interval2 = "P1"))
                /\ moved, change)
        \o Only(nameWithOctave(current_pitches[j]) = nameWithOctave(current_pitches[k])
                /\ nameWithOctave(next_pitches[j]) = nameWithOctave(next_pitches[k]) /\ moved,
             Suggestion("Separate voices to different pitches", <<voice_names[j], voice_names[k]>>, 0))

ParallelSuggestions(current_pitches, next_pitches, chord_num) ==
    Flatten([p \in 1..Len(VoicePairs) |->
        ParallelSuggestionsOfPair(current_pitches, next_pitches, chord_num,
                                  VoicePairs[p][1], VoicePairs[p][2])])

\* Voice crossing: the current chord of the pair only.
CrossingErrors(current_pitches, chord_num) ==
    Flatten([j \in 1..3 |->
        Only(PitchLt(current_pitches[j + 1], current_pitches[j]),
             Finding("voice_crossing", <<chord_num>>, <<voice_names[j], voice_names[j + 1]>>, "error"))])

CrossingSuggestions(current_pitches) ==
    Flatten([j \in 1..3 |->
        Only(PitchLt(current_pitches[j + 1], current_pitches[j]),
             Suggestion("Reorder voices", <<voice_names[j + 1], voice_names[j]>>, 0))])

\* Incomplete chords: tested against the root, third and fifth of the chord
\* as sounded.
MissingTones(current_chord) ==
    LET current_pitch_classes == {pitchClass(current_chord[j]) : j \in 1..4}
        root_pc == PitchClassOrNone(root(current_chord))
        third_pc == PitchClassOrNone(third(current_chord))
        fifth_pc == PitchClassOrNone(fifth(current_chord))
    IN  IF Cardinality(current_pitch_classes) < 3
        THEN Only(Truthy(root_pc) /\ root_pc \notin current_pitch_classes, "root")
             \o Only(Truthy(third_pc) /\ third_pc \notin current_pitch_classes, "third")
             \o Only(Truthy(fifth_pc) /\ fifth_pc \notin current_pitch_classes, "fifth")
        ELSE <<>>

IncompleteErrors(current_chord, chord_num) ==
    Only(MissingTones(current_chord) # <<>>,
         Finding("incomplete_chord", <<chord_num>>, <<"All voices">>, "error"))

IncompleteSuggestions(current_chord, chord_num) ==
    Only(MissingTones(current_chord) # <<>>,
         Suggestion("Include all chord tones", <<>>, chord_num))

\* Large melodic leaps: appended to errors with severity error or warning.
LeapOf(current_pitches, next_pitches, j) == Abs(midi(current_pitches[j]) - midi(next_pitches[j]))

max_leap(j) == IF j = 1 THEN 12 ELSE 6

LeapErrors(current_pitches, next_pitches, chord_num) ==
    Flatten([j \in 1..4 |->
        LET leap == LeapOf(current_pitches, next_pitches, j)
        IN  Only(leap > max_leap(j),
                 Finding("large_leap", <<chord_num, chord_num + 1>>, <<voice_names[j]>>,
                         IF leap > 12 THEN "error" ELSE "warning"))])

LeapSuggestions(current_pitches, next_pitches) ==
    Flatten([j \in 1..4 |->
        Only(LeapOf(current_pitches, next_pitches, j) > 12,
             Suggestion("Reduce leap by changing chord voicing or progression", <<voice_names[j]>>, 0))])

\* Resolution of the leading tone, for the pairs the progression has
\* numerals for.
Unresolved(key_obj, chord_progression, current_pitches, next_pitches, i, j) ==
    /\ i < Len(chord_progression)
    /\ CharIn("V", chord_progression[i])
    /\ (CharIn("I", chord_progression[i + 1]) \/ CharIn("i", chord_progression[i + 1]))
    /\ current_pitches[j].name = LeadingToneName(key_obj)
    /\ next_pitches[j].name # key_obj.tonic

TendencyWarnings(key_obj, chord_progression, current_pitches, next_pitches, i) ==
    Flatten([j \in 1..4 |->
        Only(Unresolved(key_obj, chord_progression, current_pitches, next_pitches, i, j),
             Finding("tendency_tone", <<i, i + 1>>, <<voice_names[j]>>, "warning"))])

TendencySuggestions(key_obj, chord_progression, current_pitches, next_pitches, i) ==
    Flatten([j \in 1..4 |->
        Only(Unresolved(key_obj, chord_progression, current_pitches, next_pitches, i, j),
             Suggestion("Resolve leading tone upward to tonic", <<voice_names[j]>>, 0))])

\* Chord spacing: the current chord of the pair only.
SpacingWarnings(current_pitches, chord_num) ==
    LET soprano_alto == midi(current_pitches[4]) - midi(current_pitches[3])
        alto_tenor == midi(current_pitches[3]) - midi(current_pitches[2])
    IN  Only(soprano_alto > 12,
             Finding("wide_spacing", <<chord_num>>, <<"Soprano", "Alto">>, "warning"))
        \o Only(alto_tenor > 12,
             Finding("wide_spacing", <<chord_num>>, <<"Alto", "Tenor">>, "warning"))

SpacingSuggestions(current_pitches) ==
    LET soprano_alto == midi(current_pitches[4]) - midi(current_pitches[3])
        alto_tenor == midi(current_pitches[3]) - midi(current_pitches[2])
        keep == Suggestion("Keep upper voices within an octave of each other", <<>>, 0)
    IN  Only(soprano_alto > 12, keep) \o Only(alto_tenor > 12, keep)

\* One pass of the loop over the chord pairs (i counts from 1).
ErrorsOfPair(chords, i) ==
    RangeErrors(chords[i], chords[i + 1], i)
    \o ParallelErrors(chords[i], chords[i + 1], i)
    \o CrossingErrors(chords[i], i)
    \o IncompleteErrors(chords[i], i)
    \o LeapErrors(chords[i], chords[i + 1], i)

WarningsOfPair(key_obj, chord_progression, chords, i) ==
    TendencyWarnings(key_obj, chord_progression, chords[i], chords[i + 1], i)
    \o SpacingWarnings(chords[i], i)

SuggestionsOfPair(key_obj, chord_progression, chords, i) ==
    RangeSuggestions(chords[i])
    \o ParallelSuggestions(chords[i], chords[i + 1], i)
    \o CrossingSuggestions(chords[i])
    \o IncompleteSuggestions(chords[i], i)
    \o LeapSuggestions(chords[i], chords[i + 1])
    \o TendencySuggestions(key_obj, chord_progression, chords[i], chords[i + 1], i)
    \o SpacingSuggestions(chords[i])

CountSeverity(errors, severity) ==
    Cardinality({e \in 1..Len(errors) : errors[e].severity = severity})

RECURSIVE compromise_penalty(_)
compromise_penalty(compromises) ==
    IF compromises = <<>> THEN 0
    ELSE (IF Head(compromises).severity = "high" THEN 15
          ELSE IF Head(compromises).severity = "medium" THEN 10 ELSE 5)
         + compromise_penalty(Tail(compromises))

SummarySuggestion(error_count, warning_count) ==
    IF error_count > 0
    THEN <<Suggestion("Found serious errors", <<>>, error_count)>>
    ELSE IF warning_count > 2
    THEN <<Suggestion("Found minor issues", <<>>, warning_count)>>
    ELSE IF error_count = 0 /\ warning_count <= 1
    THEN <<Suggestion("Good SATB writing! Minor or no issues found.", <<>>, 0)>>
    ELSE <<>>

Range(seq) == {seq[i] : i \in DOMAIN seq}

Validation(errors, warnings, score, suggestions) ==
    [errors |-> errors, warnings |-> warnings, score |-> score, suggestions |-> suggestions]

AnalysisError ==
    Validation(<<[type |-> "analysis_error", severity |-> "error"]>>, <<>>, 0,
               {Suggestion("Try generating a new harmonization", <<>>, 0)})

\* key.Key(key_name.split()[0], key_name.split()[1] ...) of the validator.
ValidationRaises(key_name) ==
    \/ Len(key_name) = 0
    \/ ~KeyExists(key_name[1], IF Len(key_name) > 1 THEN key_name[2] ELSE "major")

\* The score and the summary suggestion, of the findings of all pairs.
Scored(errors, warnings, suggestions, compromises) ==
    LET error_count == CountSeverity(errors, "error")
        warning_count == CountSeverity(errors, "warning")
    IN  Validation(errors, warnings,
                   Max(0, 100 - error_count * 20 - warning_count * 5
                          - compromise_penalty(compromises)),
                   Range(SummarySuggestion(error_count, warning_count) \o suggestions))

\* The loop over the chord pairs and what follows it.
Analysis(key_obj, chord_progression, chords, compromises) ==
    IF Len(chords) < 2
    THEN Validation(<<"Unable to analyze harmonization">>, <<>>, 0,
                    {Suggestion("Try generating a new harmonization", <<>>, 0)})
    ELSE Scored(Flatten([i \in 1..(Len(chords) - 1) |-> ErrorsOfPair(chords, i)]),
                Flatten([i \in 1..(Len(chords) - 1) |->
                    WarningsOfPair(key_obj, chord_progression, chords, i)]),
                Flatten([i \in 1..(Len(chords) - 1) |->
                    SuggestionsOfPair(key_obj, chord_progression, chords, i)]),
                compromises)

\* The chords of the entries that parse; an entry that does not is skipped.
ParsedChords(satb_data) ==
    List(SelectSeq([i \in 1..Len(satb_data) |->
                       IF VoicesParse(satb_data[i]) THEN ChordOfVoices(satb_data[i]) ELSE <<>>],
                   LAMBDA c : c # <<>>))

validate_satb_rules(satb_data, chord_progression, key_name, compromises) ==
    IF Len(satb_data) < 2 THEN Validation(<<>>, <<>>, 100, {})
    ELSE IF ValidationRaises(key_name) THEN AnalysisError
    ELSE Analysis([tonic |-> key_name[1],
                   mode |-> IF Len(key_name) > 1 THEN key_name[2] ELSE "major"],
                  chord_progression, ParsedChords(satb_data), compromises)

(***************************************************************************)
(* analyze_bassline: the candidate progressions of a bass line.            *)
(***************************************************************************)
\* detected_key.getScaleDegreeFromPitch(bass_pitch): 0 stands for None.
ScaleDegree(key_obj, bass_pitch) ==
    LET names == ScaleNames(key_obj)
    IN  IF \E d \in 1..7 : names[d] = bass_pitch.name
        THEN CHOOSE d \in 1..7 : names[d] = bass_pitch.name
        ELSE 0

chord_options(mode) ==
    IF mode = "major"
    THEN << <<"I", "vi6">>, <<"ii", "vii°6", "V7">>, <<"I6">>, <<"IV", "ii6", "I6/4">>,
            <<"V", "V7", "I6/4">>, <<"vi", "IV6">>, <<"vii°", "V7", "V6/5">> >>
    ELSE << <<"i", "VI6">>, <<"ii°", "vii°6", "V7">>, <<"i6">>, <<"iv", "ii°6", "i6/4">>,
            <<"V", "v">>, <<"VI", "iv6">>, <<"vii°", "V7">> >>

Take(seq, n) == SubSeq(seq, 1, Min(n, Len(seq)))

\* position counts from 0, as in the code.
get_chords_for_bass_note(bass_pitch, detected_key, position, total_length) ==
    LET scale_degree == ScaleDegree(detected_key, bass_pitch)
        tonic_chord == IF detected_key.mode = "major" THEN <<"I">> ELSE <<"i">>
        basic == IF scale_degree \in 1..7 THEN chord_options(detected_key.mode)[scale_degree]
                 ELSE tonic_chord
        possible_chords ==
            IF position = 0
            THEN IF scale_degree = 1 THEN tonic_chord
                 ELSE IF scale_degree = 5 THEN <<"V", "V7">> ELSE basic
            ELSE IF position = total_length - 1
            THEN IF scale_degree = 1 THEN tonic_chord
                 ELSE IF scale_degree = 5 THEN <<"V7">> ELSE basic
            ELSE basic
    IN  Take(possible_chords, 3)

\* itertools.product of the option lists, in its order: the last list
\* varies fastest.
RECURSIVE Product(_)
Product(lists) ==
    IF lists = <<>> THEN << <<>> >>
    ELSE LET rest == Product(Tail(lists))
             first == Head(lists)
         IN  Flatten([a \in 1..Len(first) |-> [b \in 1..Len(rest) |-> <<first[a]>> \o rest[b]]])

RECURSIVE Power(_, _)
Power(base, n) == IF n = 0 THEN 1 ELSE base * Power(base, n - 1)

generate_bass_specific_progressions(bass_notes, detected_key) ==
    LET bass_chord_options ==
            List([i \in 1..Len(bass_notes) |->
                get_chords_for_bass_note(bass_notes[i], detected_key, i - 1, Len(bass_notes))])
        max_combinations == Min(100, Power(4, Min(Len(bass_chord_options), 6)))
        options_per_note == IF Len(bass_chord_options) > 0
                            THEN Max(2, 8 \div Len(bass_chord_options)) ELSE 3
        limited_options == List([i \in 1..Len(bass_chord_options) |->
                                    Take(bass_chord_options[i], options_per_note)])
    IN  IF limited_options # <<>>
        THEN Take(Product(limited_options), max_combinations)
        ELSE <<>>

strong_progressions ==
    { <<"I", "V">>, <<"I", "V7">>, <<"I", "vi">>, <<"I", "IV">>,
      <<"ii", "V">>, <<"ii", "V7">>, <<"ii7", "V7">>,
      <<"IV", "V">>, <<"IV", "V7">>, <<"IV", "I">>,
      <<"V", "I">>, <<"V7", "I">>, <<"V", "vi">>,
      <<"vi", "IV">>, <<"vi", "ii">>, <<"vi", "V">>,
      <<"iii", "vi">>, <<"iii", "IV">> }

weak_progressions ==
    { <<"V", "IV">>, <<"I", "ii">>, <<"iii", "ii">>,
      <<"vii°", "vi">>, <<"V7", "IV">>, <<"iii", "IV">>,
      <<"iii", "V">>, <<"iii", "vi">>, <<"I", "iii">>,
      <<"IV", "iii">>, <<"vi", "iii">> }

is_strong_progression(chord1, chord2) == <<chord1, chord2>> \in strong_progressions

is_weak_progression(chord1, chord2) == <<chord1, chord2>> \in weak_progressions

RECURSIVE Sum(_)
Sum(seq) == IF seq = <<>> THEN 0 ELSE Head(seq) + Sum(Tail(seq))

\* The score before the cadence block with the ending on the tonic not
\* rewarded.
BaseScoreWithoutEnding(progression) ==
    LET n == Len(progression)
        motion == Sum([i \in 1..(n - 1) |->
                      IF is_strong_progression(progression[i], progression[i + 1]) THEN 20
                      ELSE IF is_weak_progression(progression[i], progression[i + 1]) THEN -10
                      ELSE 0])
        starts == IF progression[1] \in {"I", "i"} THEN 15 ELSE 0
        mediants == Sum([i \in 1..n |->
                        IF Contains(<<"i", "i", "i">>, progression[i])
                           \/ Contains(<<"I", "I", "I">>, progression[i]) THEN -30 ELSE 0])
        unique_chords == Cardinality(Range(progression))
        repeats == IF unique_chords * 10 < n * 6 THEN -15 ELSE 0
    IN  100 + motion + starts + mediants + repeats

\* The score before the cadence block: the terms of the loop over the
\* steps, of the beginning and the ending, of the iii chords and of the
\* repeated chords, added to 100.
BaseScore(progression) ==
    LET n == Len(progression)
        motion == Sum([i \in 1..(n - 1) |->
                      IF is_strong_progression(progression[i], progression[i + 1]) THEN 20
                      ELSE IF is_weak_progression(progression[i], progression[i + 1]) THEN -10
                      ELSE 0])
        starts == IF progression[1] \in {"I", "i"} THEN 15 ELSE 0
        ends == IF progression[n] \in {"I", "i"} THEN 25 ELSE 0
        mediants == Sum([i \in 1..n |->
                        IF Contains(<<"i", "i", "i">>, progression[i])
                           \/ Contains(<<"I", "I", "I">>, progression[i]) THEN -30 ELSE 0])
        unique_chords == Cardinality(Range(progression))
        repeats == IF unique_chords * 10 < n * 6 THEN -15 ELSE 0
    IN  100 + motion + starts + ends + mediants + repeats

\* The cadence block with V7 dropped from its first test.
CadenceBonusWithoutV7(progression) ==
    LET n == Len(progression)
    IN  IF n >= 2
        THEN IF progression[n - 1] = "V" /\ progression[n] \in {"I", "i"} THEN 30
             ELSE IF progression[n - 1] = "IV" /\ progression[n] \in {"I", "i"} THEN 20
             ELSE 0
        ELSE 0

\* "Reward proper cadences": what the cadence block adds.
CadenceBonus(progression) ==
    LET n == Len(progression)
    IN  IF n >= 2
        THEN IF progression[n - 1] \in {"V", "V7"} /\ progression[n] \in {"I", "i"} THEN 30
             ELSE IF progression[n - 1] = "IV" /\ progression[n] \in {"I", "i"} THEN 20
             ELSE 0
        ELSE 0

score_progression(progression) ==
    Max(0, BaseScore(progression) + CadenceBonus(progression))

get_progression_style(progression) ==
    IF \E i \in 1..Len(progression) : CharIn("7", progression[i]) THEN "Jazz/Extended"
    ELSE IF "vi" \in Range(progression) /\ "IV" \in Range(progression) THEN "Popular"
    ELSE "Classical"

KeyName(key_obj) == <<key_obj.tonic, key_obj.mode>>

get_progression_description(progression, detected_key) ==
    [style |-> get_progression_style(progression),
     key |-> KeyName(detected_key),
     chord_sequence |-> Take(progression, 4)]

\* A sort by ascending score followed by a reversal of the list: equal
\* scores come out in the reverse of the order of generation.
SortedThenReversed(scored) ==
    LET rank(i) == Cardinality({j \in 1..Len(scored) :
                       scored[j].score > scored[i].score
                       \/ (scored[j].score = scored[i].score /\ j > i)}) + 1
    IN  List([r \in 1..Len(scored) |-> scored[CHOOSE i \in 1..Len(scored) : rank(i) = r]])

\* list.sort(key=score, reverse=True): stable, so equal scores keep the
\* order of generation.
SortedByScore(scored) ==
    LET rank(i) == Cardinality({j \in 1..Len(scored) :
                       scored[j].score > scored[i].score
                       \/ (scored[j].score = scored[i].score /\ j < i)}) + 1
    IN  List([r \in 1..Len(scored) |-> scored[CHOOSE i \in 1..Len(scored) : rank(i) = r]])

generate_progression_options(bass_notes, detected_key) ==
    LET progressions == generate_bass_specific_progressions(bass_notes, detected_key)
        scored_progressions ==
            List([k \in 1..Len(progressions) |->
                [roman_numerals |-> progressions[k],
                 score |-> score_progression(progressions[k]),
                 style |-> get_progression_style(progressions[k]),
                 description |-> get_progression_description(progressions[k], detected_key)]])
    IN  Take(SortedByScore(scored_progressions), 5)

\* The key of analyze_bassline: a key name of two words that is a key, and
\* C major for anything else.
KeyOfAnalysis(user_key) ==
    IF Len(user_key) = 2 /\ KeyExists(user_key[1], user_key[2])
    THEN [tonic |-> user_key[1], mode |-> user_key[2]]
    ELSE CMajor

(***************************************************************************)
(* The requests.  A request is the JSON body of a POST: an object with the *)
(* fields key, chord_progression and bass_notes, or the JSON value null.   *)
(***************************************************************************)
KeyNames == { <<"C", "major">>, <<"A", "minor">> }

\* Key names that are no key: a tonic that is no pitch name, and a name of
\* one word.
MalformedKeyNames == { <<"X", "major">>, <<"A">> }

\* Bass note names as the client may send them: with an octave, without,
\* and one that is no note name.
BassNoteNames ==
    { NoteText("C", "3"), NoteText("D", "3"), NoteText("G", "3"), NoteText("B", "3"),
      NoteText("D", "6"), NoteText("C", ""), NoteText("X", "3") }

NumeralsOf(key_name) ==
    IF Len(key_name) = 2 /\ key_name[2] = "minor"
    THEN {"i", "V", "V7", "iv"} ELSE {"I", "V", "V7", "vii°6"}

SeqsUpTo(S, n) == UNION {[1..m -> S] : m \in 0..n}

Body(key_name, chord_progression, bass_notes) ==
    [is_object |-> TRUE, key |-> key_name,
     chord_progression |-> chord_progression, bass_notes |-> bass_notes]

NullBody == [is_object |-> FALSE, key |-> <<>>, chord_progression |-> <<>>, bass_notes |-> <<>>]

Requests ==
    {NullBody} \cup
    UNION { {Body(k, p, b) : p \in SeqsUpTo(NumeralsOf(k), MaxLen),
                             b \in SeqsUpTo(BassNoteNames, MaxLen)} :
            k \in KeyNames \cup MalformedKeyNames }

NoResponse == [status |-> 0]

Error(status, message) == [status |-> status, error |-> message]

(***************************************************************************)
(* The handlers.                                                           *)
(***************************************************************************)
\* The 200 answer: the harmonization, and its validation with the
\* compromises added to it.
Answer(generated, validation_results) ==
    [response |->
        [status |-> 200,
         satb_harmonization |-> generated.satb_voices,
         validation |-> [errors |-> validation_results.errors,
                         warnings |-> validation_results.warnings,
                         score |-> validation_results.score,
                         suggestions |-> validation_results.suggestions,
                         compromises |-> generated.compromises]],
     voiced |-> generated.voiced]

Validated(data, generated) ==
    Answer(generated,
           validate_satb_rules(generated.satb_voices, data.chord_progression, data.key,
                               generated.compromises))

\* POST /realize_satb, as a function of the body: the response and the
\* realization it was built of.
realize_satb(data) ==
    IF ~data.is_object
    THEN [response |-> Error(500, "'NoneType' object has no attribute 'get'"),
          voiced |-> NoRealization]
    ELSE IF data.chord_progression = <<>>
    THEN [response |-> Error(400, "No chord progression provided"), voiced |-> NoRealization]
    ELSE IF data.bass_notes = <<>>
    THEN [response |-> Error(400, "No bass notes provided"), voiced |-> NoRealization]
    ELSE Validated(data, generate_satb_harmonization(
                             data.chord_progression, data.bass_notes, data.key))

\* POST /analyze_bassline, as a function of the body.
analyze_bassline(data) ==
    IF ~data.is_object
    THEN Error(500, "'NoneType' object has no attribute 'get'")
    ELSE IF data.bass_notes = <<>>
    THEN Error(400, "No bass notes provided")
    ELSE IF \E i \in 1..Len(data.bass_notes) : ~Parseable(WithDefaultOctave(data.bass_notes[i]))
    THEN Error(500, "invalid note name")
    ELSE LET detected_key == KeyOfAnalysis(data.key)
             bass_stream == List([i \in 1..Len(data.bass_notes) |->
                                     ParsePitch(WithDefaultOctave(data.bass_notes[i]))])
         IN  [status |-> 200,
              key |-> KeyName(detected_key),
              progressions |-> generate_progression_options(bass_stream, detected_key)]

(***************************************************************************)
(* The server: it receives a request, one of the two handlers answers it,  *)
(* and it is idle again.                                                   *)
(***************************************************************************)
Init ==
    /\ pc = "idle"
    /\ request = NullBody
    /\ response = NoResponse
    /\ internals = NoRealization

Receive ==
    /\ pc = "idle"
    /\ pc' = "received"
    /\ request' \in Requests
    /\ UNCHANGED <<response, internals>>

RealizeSatb ==
    /\ pc = "received"
    /\ LET result == realize_satb(request)
       IN  /\ response' = result.response
           /\ internals' = result.voiced
    /\ pc' = "realize_satb"
    /\ UNCHANGED request

AnalyzeBassline ==
    /\ pc = "received"
    /\ response' = analyze_bassline(request)
    /\ pc' = "analyze_bassline"
    /\ UNCHANGED <<request, internals>>

\* The response is sent; the server waits for the next request.
Respond ==
    /\ pc \in {"realize_satb", "analyze_bassline"}
    /\ pc' = "idle"
    /\ request' = NullBody
    /\ response' = NoResponse
    /\ internals' = NoRealization

Next == Receive \/ RealizeSatb \/ AnalyzeBassline \/ Respond

Spec == Init /\ [][Next]_vars

(***************************************************************************)
(* score_progression applied to progressions of its own.  pc is "called"   *)
(* before the call and the name of the function after it, request holds    *)
(* the argument and response the value returned.                           *)
(***************************************************************************)
MaxProgression == 7

ScoredNumerals == {"I", "IV", "V", "V7", "iii"}

Progressions == UNION {[1..m -> ScoredNumerals] : m \in 1..MaxProgression}

ScoreInit ==
    /\ pc = "called"
    /\ request \in Progressions
    /\ response = NoResponse
    /\ internals = NoRealization

ScoreProgression ==
    /\ pc = "called"
    /\ response' = score_progression(request)
    /\ pc' = "score_progression"
    /\ UNCHANGED <<request, internals>>

ScoreNext == ScoreProgression

ScoreSpec == ScoreInit /\ [][ScoreNext]_vars

(***************************************************************************)
(* analyze_bassline applied to the bass lines of up to MaxBassLine notes.  *)
(***************************************************************************)
MaxBassLine == 4

LineNotes ==
    { NoteText("C", "3"), NoteText("D", "3"), NoteText("E", "3"), NoteText("F", "3"),
      NoteText("G", "3"), NoteText("A", "3"), NoteText("B", "3") }

BassLineRequests ==
    { Body(k, <<>>, b) : k \in KeyNames,
                         b \in UNION {[1..m -> LineNotes] : m \in 1..MaxBassLine} }

BassLineInit ==
    /\ pc = "received"
    /\ request \in BassLineRequests
    /\ response = NoResponse
    /\ internals = NoRealization

BassLineNext == AnalyzeBassline

BassLineSpec == BassLineInit /\ [][BassLineNext]_vars

(***************************************************************************)
(* Two runs on one request.  validate_satb_rules returns                   *)
(* list(set(suggestions)): the order of that list is the iteration order   *)
(* of a set of strings, which the hash seed of the interpreter fixes, and   *)
(* the seed is drawn anew at every start of the server.  Each of the two    *)
(* runs is answered by a server process of its own; response holds the     *)
(* answers given so far.                                                    *)
(***************************************************************************)
\* The lists that hold each element of a set once.
ListsOf(S) ==
    {order \in [1..Cardinality(S) -> S] : \A x \in S : \E k \in DOMAIN order : order[k] = x}

\* The answers realize_satb can give: the validation's suggestions in any
\* order of the set.
AnswersOfRealize(data) ==
    LET answer == realize_satb(data).response
    IN  IF answer.status = 200
        THEN {[answer EXCEPT !.validation.suggestions = order] :
                  order \in ListsOf(answer.validation.suggestions)}
        ELSE {answer}

RunRequests ==
    {r \in Requests :
        /\ r.key = <<"C", "major">>
        /\ \A i \in 1..Len(r.bass_notes) :
               r.bass_notes[i] \in {NoteText("C", "3"), NoteText("G", "3"), NoteText("B", "3")}}

RunsInit ==
    /\ pc = "received"
    /\ request \in RunRequests
    /\ response = <<>>
    /\ internals = NoRealization

RealizeRun ==
    /\ pc \in {"received", "realize_satb"}
    /\ Len(response) < 2
    /\ \E answer \in AnswersOfRealize(request) : response' = Append(response, answer)
    /\ pc' = "realize_satb"
    /\ UNCHANGED <<request, internals>>

AnalyzeRun ==
    /\ pc \in {"received", "analyze_bassline"}
    /\ Len(response) < 2
    /\ response' = Append(response, analyze_bassline(request))
    /\ pc' = "analyze_bassline"
    /\ UNCHANGED <<request, internals>>

RunsNext == RealizeRun \/ AnalyzeRun

RunsSpec == RunsInit /\ [][RunsNext]_vars

(***************************************************************************)
(* realize_satb applied to progressions of ScenarioLen chords over the     *)
(* bass notes C3 and G2.                                                    *)
(***************************************************************************)
ScenarioLen == 3

ScenarioRequests ==
    { Body(<<"C", "major">>, p, b) :
          p \in [1..ScenarioLen -> {"I", "V"}],
          b \in [1..ScenarioLen -> {NoteText("C", "3"), NoteText("G", "2")}] }

ScenarioInit ==
    /\ pc = "received"
    /\ request \in ScenarioRequests
    /\ response = NoResponse
    /\ internals = NoRealization

ScenarioNext == RealizeSatb

ScenarioSpec == ScenarioInit /\ [][ScenarioNext]_vars

(***************************************************************************)
(* realize_satb applied to progressions of ScenarioLen chords over bass    *)
(* lines that leave the range of the bass: the notes C3, D6 and E6.        *)
(***************************************************************************)
OutOfRangeRequests ==
    { Body(<<"C", "major">>, p, b) :
          p \in [1..ScenarioLen -> {"I", "V"}],
          b \in [1..ScenarioLen -> {NoteText("C", "3"), NoteText("D", "6"),
                                    NoteText("E", "6")}] }

OutOfRangeInit ==
    /\ pc = "received"
    /\ request \in OutOfRangeRequests
    /\ response = NoResponse
    /\ internals = NoRealization

OutOfRangeNext == RealizeSatb

OutOfRangeSpec == OutOfRangeInit /\ [][OutOfRangeNext]_vars

(***************************************************************************)
(* voiceChordWithFixedBass applied to every numeral of a key over bass     *)
(* notes of the octaves 2 to MaxBassOctave.  request holds the key, the    *)
(* numeral and the bass note, response the list of voicings returned.      *)
(***************************************************************************)
MaxBassOctave == 3

VoicingCalls ==
    { [key |-> k, numeral |-> numeral, fixed_bass |-> Pitch(name, octave)] :
          k \in {CMajor},
          numeral \in DOMAIN MajorNumerals,
          name \in DOMAIN PitchClassOfName,
          octave \in 2..MaxBassOctave }
    \cup
    { [key |-> k, numeral |-> numeral, fixed_bass |-> Pitch(name, octave)] :
          k \in {AMinor},
          numeral \in DOMAIN MinorNumerals,
          name \in DOMAIN PitchClassOfName,
          octave \in 2..MaxBassOctave }

VoicingInit ==
    /\ pc = "called"
    /\ request \in VoicingCalls
    /\ response = NoResponse
    /\ internals = NoRealization

VoiceChord ==
    /\ pc = "called"
    /\ response' = voiceChordWithFixedBass(
                        request.key, RomanNumeral(request.numeral, request.key),
                        request.fixed_bass)
    /\ pc' = "voiceChordWithFixedBass"
    /\ UNCHANGED <<request, internals>>

VoicingNext == VoiceChord

VoicingSpec == VoicingInit /\ [][VoicingNext]_vars

(***************************************************************************)
(* Properties of the answers of realize_satb and analyze_bassline.         *)
(***************************************************************************)
Realized == pc = "realize_satb" /\ response.status = 200

\* The four pitches of entry k of the returned harmonization, bass first.
Returned(k) == ChordOfVoices(response.satb_harmonization[k])

\* The key and the bass notes the realization in internals was made for.
RequestKey == KeyOfHarmonization(request.key)

RequestBass(i) == ParsePitch(WithDefaultOctave(request.bass_notes[i]))

\* Position i of the realization took its voicing from the regular branch
\* of the voicing generator: the permutation loop found a voicing.
NonFallback(i) ==
    RegularVoicings(RequestKey, RomanNumeral(request.chord_progression[i], RequestKey),
                    RequestBass(i)) # <<>>

HasUnparseableNote ==
    \E i \in 1..Len(request.bass_notes) : ~Parseable(WithDefaultOctave(request.bass_notes[i]))

\* C1 (bass preservation): in every 200 answer of realize_satb, entry i of
\* satb_harmonization exists in the request's bass line and its bass field
\* is bass_notes[i] with the octave 3 appended where the name has no digit.
C1_BassPreservation ==
    Realized =>
        \A i \in 1..Len(response.satb_harmonization) :
            /\ i <= Len(request.bass_notes)
            /\ response.satb_harmonization[i].bass = WithDefaultOctave(request.bass_notes[i])

\* C2 (voice ordering): in every chord of every returned harmonization
\* MIDI(bass) <= MIDI(tenor) <= MIDI(alto) <= MIDI(soprano).
C2_VoiceOrdering ==
    Realized =>
        \A k \in 1..Len(response.satb_harmonization) :
            /\ midi(Returned(k)[1]) <= midi(Returned(k)[2])
            /\ midi(Returned(k)[2]) <= midi(Returned(k)[3])
            /\ midi(Returned(k)[3]) <= midi(Returned(k)[4])

\* C3 (ranges): for every chord k of a returned harmonization of any length,
\* all four voices lie in their ranges or the report has a voice_range
\* error located at chord k.
C3_Ranges ==
    Realized =>
        \A k \in 1..Len(response.satb_harmonization) :
            \/ \A j \in 1..4 : InRange(Returned(k)[j], voice_ranges[j])
            \/ \E e \in 1..Len(response.validation.errors) :
                   /\ response.validation.errors[e].type = "voice_range"
                   /\ response.validation.errors[e].location = <<k>>

\* C4 (spacing): for every chord k of a returned harmonization, soprano and
\* alto and alto and tenor are at most 12 semitones apart, or the report has
\* a wide_spacing warning for chord k.
C4_Spacing ==
    Realized =>
        \A k \in 1..Len(response.satb_harmonization) :
            \/ /\ midi(Returned(k)[4]) - midi(Returned(k)[3]) <= 12
               /\ midi(Returned(k)[3]) - midi(Returned(k)[2]) <= 12
            \/ \E w \in 1..Len(response.validation.warnings) :
                   /\ response.validation.warnings[w].type = "wide_spacing"
                   /\ response.validation.warnings[w].location = <<k>>

\* C5 (completeness): every chord of a realization voiced by the regular
\* branch of the voicing generator has the pitch classes of the root, the
\* third and the fifth of its numeral among its four voices.
C5_Completeness ==
    Realized =>
        \A i \in 1..Len(internals.chords) :
            NonFallback(i) =>
                LET chord_symbol == RomanNumeral(request.chord_progression[i], RequestKey)
                    sounding == {pitchClass(Returned(i)[j]) : j \in 1..4}
                IN  /\ PitchClassOfName[chord_symbol.root] \in sounding
                    /\ PitchClassOfName[chord_symbol.third] \in sounding
                    /\ PitchClassOfName[chord_symbol.fifth] \in sounding

\* C6 (leading-tone doubling): in every chord of a realization voiced by the
\* regular branch, at most one of the four voices, the bass included, has
\* the pitch class of the key's leading tone.
C6_LeadingToneDoubling ==
    Realized =>
        \A i \in 1..Len(internals.chords) :
            NonFallback(i) =>
                Cardinality({j \in 1..4 :
                    pitchClass(Returned(i)[j]) = LeadingTonePitchClass(RequestKey)}) <= 1

\* The report has an error of the given type for the chord pair i, i + 1.
ReportsForPair(type, i) ==
    \E e \in 1..Len(response.validation.errors) :
        /\ response.validation.errors[e].type = type
        /\ response.validation.errors[e].location = <<i, i + 1>>

\* C7 (parallel detection agreement): for every adjacent chord pair of a
\* realization and every voice pair, where progressionCost adds the +200
\* term the report has a parallel_fifths error for that chord pair, and
\* where it adds the +300 term the report has a parallel_octaves error for
\* that chord pair.
C7_ParallelDetectionAgreement ==
    Realized =>
        \A i \in 1..(Len(internals.chords) - 1) :
            \A p \in 1..Len(VoicePairs) :
                LET chord1 == internals.chords[i]
                    chord2 == internals.chords[i + 1]
                IN  /\ ParallelFifthTerm(chord1, chord2, VoicePairs[p][1], VoicePairs[p][2])
                          => ReportsForPair("parallel_fifths", i)
                    /\ ParallelOctaveTerm(chord1, chord2, VoicePairs[p][1], VoicePairs[p][2])
                          => ReportsForPair("parallel_octaves", i)

\* C8 (validator score): the score of the report is
\* max(0, 100 - 20 E - 5 W - P), E the number of reported errors, W the
\* number of reported warnings (the tendency_tone and wide_spacing entries
\* and the large_leap entries of severity warning), P the sum of 15 per
\* high, 10 per medium and 5 per low compromise.
C8_ValidatorScore ==
    Realized =>
        LET E == CountSeverity(response.validation.errors, "error")
            W == Len(response.validation.warnings)
                 + CountSeverity(response.validation.errors, "warning")
            P == compromise_penalty(response.validation.compromises)
        IN  response.validation.score = Max(0, 100 - 20 * E - 5 * W - P)

\* C9 (empty voicing set): when the voicing generator finds no admissible
\* voicing for some chord of the progression, realize_satb answers 200 and
\* the compromises have a high-severity entry reporting the fallback.
C9_EmptyVoicingSet ==
    (/\ pc = "realize_satb"
     /\ internals.chords # <<>>
     /\ \E i \in 1..Len(internals.chords) : ~NonFallback(i))
    => /\ response.status = 200
       /\ \E c \in 1..Len(response.validation.compromises) :
              /\ response.validation.compromises[c].type = "fallback_used"
              /\ response.validation.compromises[c].severity = "high"

\* C10 (malformed input): a request to analyze_bassline or realize_satb
\* whose bass_notes hold an unparseable note name is answered with a 500
\* error response and never with a 200 response.
C10_MalformedInput ==
    (/\ pc \in {"realize_satb", "analyze_bassline"}
     /\ request.is_object
     /\ pc = "realize_satb" => request.chord_progression # <<>>
     /\ HasUnparseableNote)
    => response.status = 500

\* The request in hand with "C major" for its key.
InCMajor == [request EXCEPT !.key = <<"C", "major">>]

\* C11 (key-parse fallback): the answer of either handler to a request whose
\* key name is no key is the answer of that handler to the same request
\* with the key "C major".
C11_KeyParseFallback ==
    (request.is_object /\ request.key \in MalformedKeyNames) =>
        /\ pc = "realize_satb" => response = realize_satb(InCMajor).response
        /\ pc = "analyze_bassline" => response = analyze_bassline(InCMajor)

\* The progression scored ends with an authentic cadence: V or V7, then I
\* or i.
EndsAuthentic ==
    /\ pc = "score_progression"
    /\ Len(request) >= 2
    /\ request[Len(request) - 1] \in {"V", "V7"}
    /\ request[Len(request)] \in {"I", "i"}

\* The score of a progression with the cadence block left out of
\* score_progression.
ScoreWithoutCadence(progression) == Max(0, BaseScore(progression))

\* C12 (cadence bonus), as claimed: a progression that ends with an authentic
\* cadence scores at least 30 more than it does with the cadence term left
\* out, and where the score is not clipped the bonus is 30 and no more.
C12_CadenceBonus ==
    EndsAuthentic =>
        /\ response >= ScoreWithoutCadence(request) + 30
        /\ response > 0 => response = BaseScore(request) + 30

\* C12, amended: the score of such a progression is max(0, b + 30), b the
\* sum of 100 and the other terms before clipping; it is at least 30 more
\* than the score without the cadence term where b >= 0 and never less than
\* that score; the plagal 20 is never added.
C12_CadenceBonusClipped ==
    EndsAuthentic =>
        /\ response = Max(0, BaseScore(request) + 30)
        /\ response >= ScoreWithoutCadence(request)
        /\ BaseScore(request) >= 0 => response = ScoreWithoutCadence(request) + 30

\* A progression with an authentic cadence whose other terms sum to less
\* than 0 has been scored.
C12_Witness ==
    /\ EndsAuthentic
    /\ BaseScore(request) < 0
    /\ response < ScoreWithoutCadence(request) + 30

\* analyze_bassline has answered the request in hand with progressions.
Analyzed200 == pc = "analyze_bassline" /\ response.status = 200

\* The progressions the enumerator produced for the request in hand, in
\* the order it produced them.
Enumerated ==
    generate_bass_specific_progressions(
        List([i \in 1..Len(request.bass_notes) |-> RequestBass(i)]),
        KeyOfAnalysis(request.key))

\* The place of a progression in an enumeration.
PlaceIn(enumerated, progression) ==
    CHOOSE k \in 1..Len(enumerated) : enumerated[k] = progression

\* C13 (top-K stability): analyze_bassline returns at most 5 progressions,
\* their scores never increase along the list, two of them with the same
\* score stand in the order of their enumeration, and no enumerated
\* progression that was left out scores more than a returned one.
C13_TopKStability ==
    Analyzed200 =>
        LET returned == response.progressions
            enumerated == Enumerated
            kept == {returned[a].roman_numerals : a \in 1..Len(returned)}
        IN  /\ Len(returned) <= 5
            /\ \A a, b \in 1..Len(returned) :
                   a < b =>
                       /\ returned[a].score >= returned[b].score
                       /\ returned[a].score = returned[b].score =>
                              PlaceIn(enumerated, returned[a].roman_numerals)
                                  < PlaceIn(enumerated, returned[b].roman_numerals)
            /\ \A k \in 1..Len(enumerated) :
                   enumerated[k] \notin kept =>
                       \A a \in 1..Len(returned) :
                           score_progression(enumerated[k]) <= returned[a].score

\* More than 5 progressions were enumerated, and two of the 5 returned have
\* the same score.
C13_Witness ==
    /\ Analyzed200
    /\ Len(Enumerated) > 5
    /\ Len(response.progressions) = 5
    /\ \E a, b \in 1..5 : a < b /\ response.progressions[a].score = response.progressions[b].score

ScenarioS1 ==
    /\ request.is_object
    /\ request.key = <<"C", "major">>
    /\ request.bass_notes = <<NoteText("C", "3"), NoteText("F", "3"),
                              NoteText("G", "3"), NoteText("C", "3")>>

\* The number of steps of a progression that are strong progressions.
StrongSteps(progression) ==
    Cardinality({i \in 1..(Len(progression) - 1) :
                    is_strong_progression(progression[i], progression[i + 1])})

\* C15 (scenario S1): the first progression analyze_bassline returns for
\* C3 F3 G3 C3 in C major is I IV V I or I IV V7 I, and its score is at
\* least 100 + 30 + 25 + 15 and 20 more for each of its strong steps.
C15_ScenarioS1 ==
    (Analyzed200 /\ ScenarioS1) =>
        LET top == response.progressions[1]
        IN  /\ top.roman_numerals \in {<<"I", "IV", "V", "I">>, <<"I", "IV", "V7", "I">>}
            /\ top.score >= 100 + 30 + 25 + 15 + 20 * StrongSteps(top.roman_numerals)

\* Scenario S1 has been answered, and the first progression has three
\* strong steps.
C15_Witness ==
    /\ Analyzed200
    /\ ScenarioS1
    /\ Len(response.progressions) >= 1
    /\ StrongSteps(response.progressions[1].roman_numerals) = 3

\* The request of scenario S3: I V I over C3 G2 C3 in C major.
ScenarioS3 ==
    /\ request.is_object
    /\ request.key = <<"C", "major">>
    /\ request.chord_progression = <<"I", "V", "I">>
    /\ request.bass_notes = <<NoteText("C", "3"), NoteText("G", "2"), NoteText("C", "3")>>

\* C16 (scenario S3): the report on the realization of I V I over C3 G2 C3
\* in C major has no entry in errors, the score 100 and no compromise.
C16_ScenarioS3 ==
    (Realized /\ ScenarioS3) =>
        /\ response.validation.errors = <<>>
        /\ response.validation.score = 100
        /\ response.validation.compromises = <<>>

\* Scenario S3 has been answered with a realization of three chords, each
\* voiced by the regular branch of the voicing generator.
C16_Witness ==
    /\ Realized
    /\ ScenarioS3
    /\ Len(internals.chords) = 3
    /\ \A i \in 1..3 : NonFallback(i)

\* The voicing sets V_1 .. V_n the voicing generator returns for the
\* request in hand.
VoicingSets ==
    List([i \in 1..Len(request.chord_progression) |->
        voiceChordWithFixedBass(RequestKey,
                                RomanNumeral(request.chord_progression[i], RequestKey),
                                RequestBass(i))])

\* The least element of a non-empty set of integers.
Least(S) == CHOOSE x \in S : \A y \in S : x <= y

\* The least cost of voicing the positions i .. n, position i - 1 being
\* voiced as prev: every sequence is tried.
RECURSIVE CheapestFrom(_, _, _, _)
CheapestFrom(key_obj, sets, i, prev) ==
    IF i > Len(sets) THEN 0
    ELSE Least({progressionCost(key_obj, prev, sets[i][k]) + chordCost(key_obj, sets[i][k])
                    + CheapestFrom(key_obj, sets, i + 1, sets[i][k]) : k \in 1..Len(sets[i])})

\* min over (v_1, .., v_n) of C(v_1) + sum of T(v_{i-1}, v_i) + C(v_i).
CheapestSequence(key_obj, sets) ==
    Least({chordCost(key_obj, sets[1][k]) + CheapestFrom(key_obj, sets, 2, sets[1][k]) :
               k \in 1..Len(sets[1])})

\* The cost of one sequence of voicings.
SequenceCost(key_obj, chords) ==
    chordCost(key_obj, chords[1])
    + Sum([i \in 1..(Len(chords) - 1) |->
              progressionCost(key_obj, chords[i], chords[i + 1])
              + chordCost(key_obj, chords[i + 1])])

\* C17 (DP optimality): the total cost voiceProgressionWithFixedBass returns
\* is the least cost of all sequences of voicings drawn from the generated
\* voicing sets, and the realization it returns is such a sequence and has
\* that cost.
C17_DPOptimality ==
    (Realized /\ internals.chords # <<>>) =>
        LET sets == VoicingSets
        IN  /\ internals.totalCost = CheapestSequence(RequestKey, sets)
            /\ Len(internals.chords) = Len(sets)
            /\ \A i \in 1..Len(sets) :
                   \E k \in 1..Len(sets[i]) : sets[i][k] = internals.chords[i]
            /\ SequenceCost(RequestKey, internals.chords) = internals.totalCost

\* A progression of three chords has been realized where every position
\* had several voicings to choose from and the sequence of the first
\* voicings costs more than the realization returned.
C17_Witness ==
    /\ Realized
    /\ Len(internals.chords) = 3
    /\ \A i \in 1..3 : Len(VoicingSets[i]) > 1
    /\ SequenceCost(RequestKey, List([i \in 1..3 |-> VoicingSets[i][1]])) > internals.totalCost

\* voiceChordWithFixedBass has returned, and the voicings it returned came
\* from its loop over the doublings, not from its fallback.
RegularReturned ==
    /\ pc = "voiceChordWithFixedBass"
    /\ RegularVoicings(request.key, RomanNumeral(request.numeral, request.key),
                       request.fixed_bass) # <<>>

\* C18 (voicing invariant): at most 10 voicings are returned, and every
\* voicing of the regular branch has the fixed bass for its bass, bass <
\* tenor < alto < soprano, tenor in C3..G4, alto in G3..C5, soprano in
\* C4..G5, and at most 12 semitones between soprano and alto and between
\* alto and tenor.
C18_VoicingInvariant ==
    pc = "voiceChordWithFixedBass" =>
        /\ Len(response) <= 10
        /\ RegularReturned =>
               \A k \in 1..Len(response) :
                   LET v == response[k]
                   IN  /\ v[1] = request.fixed_bass
                       /\ midi(v[1]) < midi(v[2])
                       /\ midi(v[2]) < midi(v[3])
                       /\ midi(v[3]) < midi(v[4])
                       /\ midi(Pitch("C", 3)) <= midi(v[2]) /\ midi(v[2]) <= midi(Pitch("G", 4))
                       /\ midi(Pitch("G", 3)) <= midi(v[3]) /\ midi(v[3]) <= midi(Pitch("C", 5))
                       /\ midi(Pitch("C", 4)) <= midi(v[4]) /\ midi(v[4]) <= midi(Pitch("G", 5))
                       /\ midi(v[4]) - midi(v[3]) <= 12
                       /\ midi(v[3]) - midi(v[2]) <= 12

\* The regular branch found more than 10 voicings and 10 were returned.
C18_Witness ==
    /\ RegularReturned
    /\ Len(RegularVoicings(request.key, RomanNumeral(request.numeral, request.key),
                           request.fixed_bass)) > 10
    /\ Len(response) = 10

\* C19 (seventh chords): every voicing of the regular branch for a numeral
\* with a seventh has four distinct pitch classes: those of the root, the
\* third, the fifth and the seventh of the numeral.
C19_SeventhChords ==
    (RegularReturned /\ containsSeventh(RomanNumeral(request.numeral, request.key))) =>
        \A k \in 1..Len(response) :
            LET chord_symbol == RomanNumeral(request.numeral, request.key)
            IN  {pitchClass(response[k][j]) : j \in 1..4}
                    = {PitchClassOfName[chord_symbol.root], PitchClassOfName[chord_symbol.third],
                       PitchClassOfName[chord_symbol.fifth], PitchClassOfName[chord_symbol.seventh]}

\* The numerals of inversion 2.
SixFourNumerals == {"I6/4", "i6/4"}

\* C20 (six-four chords): every voicing of the regular branch for a
\* second-inversion triad over its fifth holds the fifth twice and the
\* root and the third once each.
C20_SixFourChords ==
    (/\ RegularReturned
     /\ request.numeral \in SixFourNumerals
     /\ request.fixed_bass.name = RomanNumeral(request.numeral, request.key).fifth) =>
        \A k \in 1..Len(response) :
            LET chord_symbol == RomanNumeral(request.numeral, request.key)
                names == pitchNames(response[k])
            IN  /\ Count(names, chord_symbol.fifth) = 2
                /\ Count(names, chord_symbol.root) = 1
                /\ Count(names, chord_symbol.third) = 1


\* The figure of a numeral: what follows its letters and its diminished
\* sign.
FigureOf(numeral) ==
    SelectSeq(CharsOfNumeral[numeral], LAMBDA c : c \in {"4", "5", "6", "7", "/"})

\* RomanNumeral(numeral, key_obj).bass().name: the chord tone the figure of
\* the numeral puts in the bass.
BassOfNumeral(numeral, key_obj) ==
    LET chord_symbol == RomanNumeral(numeral, key_obj)
        figure == FigureOf(numeral)
    IN  IF figure \in {<<"6">>, <<"6", "/", "5">>} THEN chord_symbol.third
        ELSE IF figure = <<"6", "/", "4">> THEN chord_symbol.fifth
        ELSE chord_symbol.root

\* The candidate numerals of the i-th note of the bass line in hand.
CandidatesAt(i) ==
    get_chords_for_bass_note(RequestBass(i), KeyOfAnalysis(request.key),
                             i - 1, Len(request.bass_notes))

\* C21 (bass-to-chord map): the bass note that the figure of a candidate
\* numeral selects is the bass note the candidate was returned for, at
\* every position of every bass line of scale degrees.
C21_BassToChordMap ==
    Analyzed200 =>
        \A i \in 1..Len(request.bass_notes) :
            \A c \in 1..Len(CandidatesAt(i)) :
                BassOfNumeral(CandidatesAt(i)[c], KeyOfAnalysis(request.key))
                    = RequestBass(i).name


\* The tonic numeral of a key.
TonicNumeral(key_obj) == IF key_obj.mode = "major" THEN "I" ELSE "i"

\* C22 (last-position override): the candidates of the last note of a bass
\* line of any length are the tonic numeral alone when the note is scale
\* degree 1, and V7 alone when it is scale degree 5.
C22_LastPositionOverride ==
    Analyzed200 =>
        LET n == Len(request.bass_notes)
            detected_key == KeyOfAnalysis(request.key)
            scale_degree == ScaleDegree(detected_key, RequestBass(n))
            candidates == Range(CandidatesAt(n))
        IN  /\ scale_degree = 1 => candidates = {TonicNumeral(detected_key)}
            /\ scale_degree = 5 => candidates = {"V7"}


\* The steps of a progression.
Steps(progression) == 1..(Len(progression) - 1)

\* S: the number of steps that are in the strong-progression set.
StrongCount(progression) == StrongSteps(progression)

\* W: the number of steps that are in the weak-progression set.
WeakCount(progression) ==
    Cardinality({i \in Steps(progression) :
                    is_weak_progression(progression[i], progression[i + 1])})

\* G: the global terms of a progression.
GlobalTerms(progression) ==
    LET n == Len(progression)
        mediants == Cardinality({i \in 1..n :
                                    \/ Contains(<<"i", "i", "i">>, progression[i])
                                    \/ Contains(<<"I", "I", "I">>, progression[i])})
    IN  (IF progression[1] \in {"I", "i"} THEN 15 ELSE 0)
        + (IF progression[n] \in {"I", "i"} THEN 25 ELSE 0)
        - 30 * mediants
        - (IF Cardinality(Range(progression)) * 10 < n * 6 THEN 15 ELSE 0)
        + CadenceBonus(progression)

\* C23 (scorer formula): the score of a progression is
\* max(0, 100 + 20 S - 10 W + G), every step counted in S when it is in
\* the strong set and in W when it is in the weak set.
C23_ScorerFormula ==
    pc = "score_progression" =>
        response = Max(0, 100 + 20 * StrongCount(request)
                              - 10 * WeakCount(request) + GlobalTerms(request))


\* The parallel rule of the transition cost fires for the voice pair (j, k)
\* between two chords: the pair moved, and both its intervals are fifths or
\* both are octaves.
ParallelRuleFires(chord1, chord2, j, k) ==
    \/ ParallelFifthTerm(chord1, chord2, j, k)
    \/ ParallelOctaveTerm(chord1, chord2, j, k)

\* C24 (forced-parallels rule): every forced_parallels compromise of a
\* realization names two adjacent chords and a voice pair for which the
\* parallel rule of the transition cost fires; a voice pair that holds its
\* two pitches yields none.
C24_ForcedParallels ==
    Realized =>
        \A c \in 1..Len(internals.compromises) :
            LET entry == internals.compromises[c]
            IN  entry.type = "forced_parallels" =>
                    ParallelRuleFires(internals.chords[entry.location[1]],
                                      internals.chords[entry.location[2]],
                                      entry.voices[1], entry.voices[2])


\* realize_satb has answered with a realization of at least two chords.
RealizedPairs == Realized /\ Len(internals.chords) >= 2

\* The report of the answer has an error of a type located at chord k.
ErrorAt(type, k) ==
    \E e \in 1..Len(response.validation.errors) :
        /\ response.validation.errors[e].type = type
        /\ response.validation.errors[e].location = <<k>>

\* Chord k of the answer lacks the root, the third or the fifth of the
\* numeral at position k.
LacksTriadTone(k) ==
    LET chord_symbol == RomanNumeral(request.chord_progression[k], RequestKey)
        sounding == {pitchClass(Returned(k)[j]) : j \in 1..4}
    IN  \/ PitchClassOfName[chord_symbol.root] \notin sounding
        \/ PitchClassOfName[chord_symbol.third] \notin sounding
        \/ PitchClassOfName[chord_symbol.fifth] \notin sounding

\* C25 (incomplete-chord rule): in every realization of at least two
\* chords, a chord that lacks the root, the third or the fifth of its
\* numeral has an incomplete_chord error located at it.
C25_IncompleteChordRule ==
    RealizedPairs =>
        \A k \in 1..Len(response.satb_harmonization) :
            LacksTriadTone(k) => ErrorAt("incomplete_chord", k)


\* Some voice of chord k of the answer is above the next higher voice.
OutOfOrder(k) == \E j \in 1..3 : PitchLt(Returned(k)[j + 1], Returned(k)[j])

\* C26 (voice-crossing rule): in every realization of at least two chords,
\* a chord with an adjacent voice pair out of order, the last chord
\* included, has a voice_crossing error located at it.
C26_VoiceCrossingRule ==
    RealizedPairs =>
        \A k \in 1..Len(response.satb_harmonization) :
            OutOfOrder(k) => ErrorAt("voice_crossing", k)


\* The numerals of the dominant (V and V7 in their inversions) and of the
\* tonic (I and i in their inversions).
DominantNumerals == {"V", "V7", "V6/5"}

TonicNumerals == {"I", "I6", "I6/4", "i", "i6", "i6/4"}

\* C27 (tendency-tone rule): every tendency_tone warning of an answer is
\* for a chord pair whose first numeral is a dominant and whose second is
\* a tonic, and names a voice that has the leading tone in the first chord
\* and not the tonic in the second.
C27_TendencyToneRule ==
    Realized =>
        \A w \in 1..Len(response.validation.warnings) :
            LET warning == response.validation.warnings[w]
                i == warning.location[1]
                j == CHOOSE v \in 1..4 : <<voice_names[v]>> = warning.voice
                key_name == request.key
            IN  warning.type = "tendency_tone" =>
                    /\ request.chord_progression[i] \in DominantNumerals
                    /\ request.chord_progression[i + 1] \in TonicNumerals
                    /\ Returned(i)[j].name
                           = LeadingToneName([tonic |-> key_name[1],
                                              mode |-> IF Len(key_name) > 1
                                                       THEN key_name[2] ELSE "major"])
                    /\ Returned(i + 1)[j].name # key_name[1]


\* C28 (marginal costs): the per-chord costs handed to the compromise
\* analyzer are C(v_1) for the first chord and T(v_{i-1}, v_i) + C(v_i) for
\* every later chord of the realization, and they sum to its total cost.
C28_MarginalCosts ==
    (Realized /\ internals.chords # <<>>) =>
        LET chords == internals.chords
            chord_costs == internals.chord_costs
        IN  /\ Len(chord_costs) = Len(chords)
            /\ chord_costs[1] = chordCost(RequestKey, chords[1])
            /\ \A i \in 2..Len(chords) :
                   chord_costs[i] = progressionCost(RequestKey, chords[i - 1], chords[i])
                                    + chordCost(RequestKey, chords[i])
            /\ Sum(chord_costs) = internals.totalCost

\* A progression of three chords has been realized with a second and a
\* third chord of different costs above 0.
C28_Witness ==
    /\ Realized
    /\ Len(internals.chord_costs) = 3
    /\ internals.chord_costs[2] > 0
    /\ internals.chord_costs[3] > internals.chord_costs[2]
    /\ internals.totalCost = Sum(internals.chord_costs)


\* Two chords hold the same pitches the same number of times.
SamePitches(c, d) ==
    \A p \in Range(c) \cup Range(d) : Count(c, p) = Count(d, p)

\* C29 (response faithfulness): the four pitches reported for a chord of
\* the answer are the four pitches of the voicing the DP chose for that
\* position, each as often as the voicing has it.
C29_ResponseFaithfulness ==
    (Realized /\ internals.chords # <<>>) =>
        \A k \in 1..Len(response.satb_harmonization) :
            SamePitches(Returned(k), internals.chords[k])


\* C30 (single reporting): no two entries of the errors list of an answer
\* have the same type, location and voice.
C30_SingleReporting ==
    Realized =>
        LET errors == response.validation.errors
        IN  \A a, b \in 1..Len(errors) :
                a < b =>
                    ~(/\ errors[a].type = errors[b].type
                      /\ errors[a].location = errors[b].location
                      /\ errors[a].voice = errors[b].voice)

=============================================================================
